---------------------------- MODULE Spec2Model ----------------------------
(***************************************************************************)
(* A model of PyHardwareLibrary's core: the NotificationCenter             *)
(* (notificationcenter.py), the PhysicalDevice lifecycle and its           *)
(* background status thread (physicaldevice.py) and the CommunicationPort  *)
(* transactions over the DebugCommunicationPort (CommunicationPort.py).    *)
(*                                                                         *)
(* Three specifications share one initial state:                           *)
(*   SpecBus     the NotificationCenter used with proper Notification.Name *)
(*               members,                                                   *)
(*   SpecDevice  one PhysicalDevice, two caller threads and the status     *)
(*               threads it spawns,                                         *)
(*   SpecPort    one EchoStringDebugCommunicationPort and two threads      *)
(*               issuing transactions.                                      *)
(***************************************************************************)
EXTENDS Integers, Sequences, FiniteSets, TLC

VARIABLES
    \* ---- NotificationCenter
    observers,      \* NotificationCenter.observers: dict key -> list of ObserverInfo
    delivered,      \* the ObserverInfo whose method the last postNotification called, in order
    lastOp,         \* the last NotificationCenter call: its arguments and its exception
    registered,     \* history: registrations made by completed addObserver calls, not removed since
    \* ---- PhysicalDevice
    state,          \* PhysicalDevice.state
    monitoring,     \* PhysicalDevice.monitoring: a Thread handle or None
    quitMonitoring, \* PhysicalDevice.quitMonitoring
    lock,           \* PhysicalDevice.lock (RLock): its owner or None
    tpc,            \* per status thread: where it is in backgroundStatusUpdates
    cpc,            \* per caller thread: where it is in start/stopBackgroundStatusUpdates
    joined,         \* per caller thread: the Thread handle its join() was called on
    lastCall,       \* the last completed device call: its caller, arguments and outcome
    posted,         \* the status notifications the bus dispatched for the status threads
    bpc,            \* per bus thread: where it is in its NotificationCenter call
    bcall,          \* per bus thread: the call it is making or has made
    blocal,         \* per bus thread: the list built by removeObserver's comprehension
    base,           \* history: the table when the first of the concurrent calls began
    \* ---- CommunicationPort
    outputBuffer,   \* DebugCommunicationPort.outputBuffer
    transactionLock,\* CommunicationPort.transactionLock (RLock): its owner or None
    ppc,            \* per port thread: where it is in writeStringReadMatchingGroups
    request,        \* per port thread: the string being written
    pattern,        \* per port thread: replyPattern
    data,           \* per port thread: readString's local bytearray
    outcome,        \* the last finished transaction: its thread, the reply read, the result
    bufAtLock,      \* history: outputBuffer when the thread entered its transaction
    portClass,      \* the class of the port object
    commands,       \* DebugCommunicationPort.commands
    lastIO,         \* the last completed call on the port: arguments and outcome
    lastTransaction \* the last completed writeString...Match... call and its outcome

conVars  == <<bpc, bcall, blocal, base>>
busVars  == <<observers, delivered, lastOp, registered, conVars>>
devVars  == <<state, monitoring, quitMonitoring, lock, tpc, cpc, joined, lastCall, posted>>
simVars  == <<portClass, commands, lastIO, lastTransaction>>
portVars == <<outputBuffer, transactionLock, ppc, request, pattern, data, outcome, bufAtLock,
              simVars>>
vars     == <<busVars, devVars, portVars>>

None == "None"

(***************************************************************************)
(* NotificationCenter                                                      *)
(***************************************************************************)

\* Members of an enum derived from Notification.Name (the names the comment
\* at the top of notificationcenter.py asks for).
NotificationNames == {"willMove", "didMove"}

\* physicaldevice.py declares its names as a plain Enum, not a Notification.Name.
PhysicalDeviceNotification ==
    {"willInitializeDevice", "didInitializeDevice", "willShutdownDevice",
     "didShutdownDevice", "status"}

\* isinstance(name, Notification.Name)
IsNotificationName(name) == name \in NotificationNames

ObserverIds == {"o1", "o2"}
Objects     == {"X", "Y"}

\* ObserverInfo.__init__ (the method is the observer's own callback)
ObserverInfo(observer, notificationName, observedObject) ==
    [observer |-> observer, notificationName |-> notificationName,
     observedObject |-> observedObject]

MatchesSameObjectOnly(self, other) ==
    IF self.notificationName # None /\ other.notificationName # None
       /\ self.notificationName # other.notificationName THEN FALSE
    ELSE IF self.observedObject # other.observedObject THEN FALSE
    ELSE IF self.observer # other.observer THEN FALSE
    ELSE TRUE

\* ObserverInfo.matches, which is also ObserverInfo.__eq__
Matches(self, other) ==
    IF self.notificationName # None /\ other.notificationName # None
       /\ self.notificationName # other.notificationName THEN FALSE
    ELSE IF self.observedObject # None /\ other.observedObject # None
            /\ self.observedObject # other.observedObject THEN FALSE
    ELSE IF self.observer # other.observer THEN FALSE
    ELSE TRUE

\* `x in list` for a list of ObserverInfo: some element == x
Contains(list, info) == \E i \in 1..Len(list) : Matches(list[i], info)

\* `notificationName not in self.observers.keys()`: the keys are the str
\* notificationName.name, the operand is the Enum member itself (or None); an
\* Enum member never compares equal to a str, so the member is never found.
MemberInKeys(notificationName, keys) == FALSE

\* self.observers[key] = list
Put(table, key, list) ==
    [k \in DOMAIN table \cup {key} |-> IF k = key THEN list ELSE table[k]]

EmptyTable == [k \in {} |-> <<>>]

\* NotificationCenter.addObserver: the table after the call and the exception raised
AddObserver(table, observer, notificationName, observedObject) ==
    IF notificationName # None /\ ~IsNotificationName(notificationName)
    THEN [observers |-> table, error |-> "ValueError"]
    ELSE LET observerInfo == ObserverInfo(observer, notificationName, observedObject) IN
         IF ~MemberInKeys(notificationName, DOMAIN table)
         THEN IF notificationName = None
              THEN [observers |-> table, error |-> "AttributeError"]   \* None.name
              ELSE [observers |-> Put(table, notificationName, <<observerInfo>>),
                    error |-> None]
         ELSE IF ~Contains(table[notificationName], observerInfo)
              THEN [observers |-> Put(table, notificationName,
                                      Append(table[notificationName], observerInfo)),
                    error |-> None]
              ELSE [observers |-> table, error |-> None]

\* the list comprehension of removeObserver
Without(list, observerToRemove) ==
    SelectSeq(list, LAMBDA currentObserver : ~Matches(currentObserver, observerToRemove))

\* NotificationCenter.removeObserver
RemoveObserver(table, observer, notificationName, observedObject) ==
    IF notificationName # None /\ ~IsNotificationName(notificationName)
    THEN [observers |-> table, error |-> "ValueError"]
    ELSE LET observerToRemove == ObserverInfo(observer, notificationName, observedObject) IN
         IF notificationName # None
         THEN IF notificationName \notin DOMAIN table
              THEN [observers |-> table, error |-> "KeyError"]
              ELSE [observers |-> Put(table, notificationName,
                                      Without(table[notificationName], observerToRemove)),
                    error |-> None]
         ELSE [observers |-> [name \in DOMAIN table |-> Without(table[name], observerToRemove)],
               error |-> None]

PostNotificationToAll(table, notificationName, notifyingObject) ==
    IF ~IsNotificationName(notificationName)
    THEN [delivered |-> <<>>, error |-> "ValueError"]
    ELSE IF notificationName \in DOMAIN table
         THEN [delivered |-> table[notificationName], error |-> None]
         ELSE [delivered |-> <<>>, error |-> None]

\* NotificationCenter.postNotification: the ObserverInfo whose method is called, in
\* order, and the exception raised
PostNotification(table, notificationName, notifyingObject) ==
    IF ~IsNotificationName(notificationName)
    THEN [delivered |-> <<>>, error |-> "ValueError"]
    ELSE IF notificationName \in DOMAIN table
         THEN [delivered |->
                  SelectSeq(table[notificationName],
                            LAMBDA observerInfo :
                                \/ observerInfo.observedObject = None
                                \/ observerInfo.observedObject = notifyingObject),
               error |-> None]
         ELSE [delivered |-> <<>>, error |-> None]

\* NotificationCenter.observersCount
RECURSIVE SumLen(_, _)
SumLen(table, keys) ==
    IF keys = {} THEN 0
    ELSE LET k == CHOOSE x \in keys : TRUE IN Len(table[k]) + SumLen(table, keys \ {k})
ObserversCount(table) == SumLen(table, DOMAIN table)

\* The longest registration history the model follows.
MaxRegistered == 2

\* What a caller may pass as notificationName: a proper name, nothing, or (as a
\* subscriber to device events would) a PhysicalDeviceNotification member.
NameArgs == NotificationNames \cup {None, "status"}
ObjectArgs == Objects \cup {None}

\* removed: by how many registrations the call made the table shorter
BusOp(op, observer, name, object, error, removed) ==
    [op |-> op, observer |-> observer, name |-> name, object |-> object,
     error |-> error, removed |-> removed]

\* The history after a completed addObserver.
RegisteredAfterAdd(reg, info) ==
    IF \E i \in 1..Len(reg) : Matches(reg[i], info) THEN reg ELSE Append(reg, info)

\* One call of addObserver, leaving the history to the caller of this definition.
AddCall(observer, name, object) ==
    LET r == AddObserver(observers, observer, name, object) IN
    /\ observers' = r.observers
    /\ lastOp' = BusOp("add", observer, name, object, r.error,
                       ObserversCount(observers) - ObserversCount(r.observers))
    /\ delivered' = <<>>
    /\ UNCHANGED <<devVars, portVars, conVars>>

\* One call of removeObserver.
RemoveCall(observer, name, object) ==
    LET r == RemoveObserver(observers, observer, name, object) IN
    /\ observers' = r.observers
    /\ lastOp' = BusOp("remove", observer, name, object, r.error,
                       ObserversCount(observers) - ObserversCount(r.observers))
    /\ delivered' = <<>>
    /\ UNCHANGED <<devVars, portVars, conVars>>

BusAdd ==
    \E observer \in ObserverIds, name \in NameArgs, object \in ObjectArgs :
        AddCall(observer, name, object) /\ UNCHANGED registered

BusRemove ==
    \E observer \in ObserverIds, name \in NameArgs, object \in ObjectArgs :
        RemoveCall(observer, name, object) /\ UNCHANGED registered

\* One call of postNotification.
BusPost ==
    \E name \in NotificationNames \cup {"status"}, object \in Objects :
        LET r == PostNotification(observers, name, object) IN
        /\ delivered' = r.delivered
        /\ lastOp' = BusOp("post", None, name, object, r.error, 0)
        /\ UNCHANGED <<observers, registered, devVars, portVars, conVars>>

\* NotificationCenter.clear
BusClear ==
    /\ observers' = EmptyTable
    /\ registered' = <<>>
    /\ lastOp' = BusOp("clear", None, None, None, None, ObserversCount(observers))
    /\ delivered' = <<>>
    /\ UNCHANGED <<devVars, portVars, conVars>>

BusNext == BusAdd \/ BusRemove \/ BusPost \/ BusClear

\* The same calls, with the history of registrations kept beside the table:
\* appended by a completed addObserver unless an equal registration is already
\* recorded, filtered by a completed removeObserver, emptied by clear.
RecordedAdd ==
    \E observer \in ObserverIds, name \in NameArgs, object \in ObjectArgs :
        /\ Len(registered) < MaxRegistered
        /\ AddCall(observer, name, object)
        /\ registered' =
              IF AddObserver(observers, observer, name, object).error = None
              THEN RegisteredAfterAdd(registered, ObserverInfo(observer, name, object))
              ELSE registered

RecordedRemove ==
    \E observer \in ObserverIds, name \in NameArgs, object \in ObjectArgs :
        /\ RemoveCall(observer, name, object)
        /\ registered' =
              IF RemoveObserver(observers, observer, name, object).error = None
              THEN Without(registered, ObserverInfo(observer, name, object))
              ELSE registered

BusHistoryNext == RecordedAdd \/ RecordedRemove \/ BusPost \/ BusClear

(***************************************************************************)
(* NotificationCenter called from several threads. Nothing in the class    *)
(* takes a lock: a thread may be switched out between the evaluation of     *)
(* removeObserver's list comprehension and the store of its result.         *)
(***************************************************************************)

BusThreads == {"b1", "b2"}

\* The arguments of the concurrent calls
SharedNames == NotificationNames
SharedObjects == {None, "X"}

NoBusCall == BusOp(None, None, None, None, None, 0)

\* The table when the calls that overlap with this one began
BaseAtCall(t) ==
    IF \A u \in BusThreads \ {t} : bpc[u] = "idle" THEN observers ELSE base

\* A thread runs addObserver: one store into the dict
ThreadAdd(t) ==
    /\ bpc[t] = "idle"
    /\ \E observer \in ObserverIds, name \in SharedNames, object \in SharedObjects :
          LET r == AddObserver(observers, observer, name, object) IN
          /\ observers' = r.observers
          /\ bcall' = [bcall EXCEPT ![t] = BusOp("add", observer, name, object, r.error, 0)]
    /\ bpc' = [bpc EXCEPT ![t] = "done"]
    /\ base' = BaseAtCall(t)
    /\ UNCHANGED <<blocal, delivered, lastOp, registered, devVars, portVars>>

\* A thread runs postNotification: the list of the name is read once and iterated
ThreadPost(t) ==
    /\ bpc[t] = "idle"
    /\ \E name \in SharedNames :
          LET r == PostNotification(observers, name, "X") IN
          /\ delivered' = r.delivered
          /\ bcall' = [bcall EXCEPT ![t] = BusOp("post", None, name, "X", r.error, 0)]
    /\ bpc' = [bpc EXCEPT ![t] = "done"]
    /\ base' = BaseAtCall(t)
    /\ UNCHANGED <<observers, blocal, lastOp, registered, devVars, portVars>>

\* removeObserver with a name: self.observers[name] is read and the list
\* comprehension evaluated (KeyError when the name has no entry)
ThreadRemoveRead(t) ==
    /\ bpc[t] = "idle"
    /\ \E observer \in ObserverIds, name \in SharedNames, object \in SharedObjects :
          IF name \in DOMAIN observers
          THEN /\ blocal' = [blocal EXCEPT ![t] =
                               Without(observers[name],
                                       ObserverInfo(observer, name, object))]
               /\ bcall' = [bcall EXCEPT ![t] =
                               BusOp("remove", observer, name, object, None, 0)]
               /\ bpc' = [bpc EXCEPT ![t] = "remove_write"]
          ELSE /\ bcall' = [bcall EXCEPT ![t] =
                               BusOp("remove", observer, name, object, "KeyError", 0)]
               /\ bpc' = [bpc EXCEPT ![t] = "done"]
               /\ UNCHANGED blocal
    /\ base' = BaseAtCall(t)
    /\ UNCHANGED <<observers, delivered, lastOp, registered, devVars, portVars>>

\* removeObserver: the store self.observers[name] = <the list built>
ThreadRemoveWrite(t) ==
    /\ bpc[t] = "remove_write"
    /\ observers' = Put(observers, bcall[t].name, blocal[t])
    /\ blocal' = [blocal EXCEPT ![t] = <<>>]
    /\ bpc' = [bpc EXCEPT ![t] = "done"]
    /\ UNCHANGED <<bcall, base, delivered, lastOp, registered, devVars, portVars>>

\* Every thread's call has returned; the threads go on to their next calls
ThreadsReturn ==
    /\ \A t \in BusThreads : bpc[t] = "done"
    /\ bpc' = [t \in BusThreads |-> "idle"]
    /\ bcall' = [t \in BusThreads |-> NoBusCall]
    /\ UNCHANGED <<observers, blocal, base, delivered, lastOp, registered, devVars, portVars>>

BusThreadsNext ==
    \/ \E t \in BusThreads :
          ThreadAdd(t) \/ ThreadPost(t) \/ ThreadRemoveRead(t) \/ ThreadRemoveWrite(t)
    \/ ThreadsReturn

(***************************************************************************)
(* PhysicalDevice                                                          *)
(***************************************************************************)

Callers     == {"c1", "c2"}
\* The number of status threads the model lets one device create.
MaxThreads  == 3
ThreadIds   == 1..MaxThreads
\* self.monitoring = None: no Thread handle
NoThread    == 0
\* no join() entered
NoJoin      == [thread |-> NoThread, alive |-> FALSE]

DeviceState == {"Unconfigured", "Ready", "Recognized", "Unrecognized"}

\* notifyingObject=self
Self == "device"

Notice(name, userInfo) == [name |-> name, userInfo |-> userInfo]

InitializeDeviceRecognized(st, table, hookRaises) ==
    IF st # "Ready"
    THEN [state |-> "Recognized", error |-> "ValueError", posted |-> <<>>,
          hookCalled |-> FALSE]
    ELSE [state |-> st, error |-> None, posted |-> <<>>, hookCalled |-> FALSE]

\* PhysicalDevice.initializeDevice, with doInitializeDevice raising or not: the
\* state after the call, the exception that reaches the caller and the
\* notifications the bus dispatched.
InitializeDevice(st, table, hookRaises) ==
    IF st # "Ready"
    THEN LET will == PostNotification(table, "willInitializeDevice", Self)
             hookRan == will.error = None
             did == PostNotification(table, "didInitializeDevice", Self)
             \* the exception that leaves the try body, if any
             tryError == IF will.error # None THEN will.error
                         ELSE IF hookRaises THEN "DeviceError"
                         ELSE did.error
             tryPosted == (IF will.error = None
                           THEN <<Notice("willInitializeDevice", None)>> ELSE <<>>)
                          \o (IF hookRan /\ ~hookRaises /\ did.error = None
                              THEN <<Notice("didInitializeDevice", None)>> ELSE <<>>)
             \* the handler's own postNotification(didInitializeDevice, userInfo=error)
             handler == PostNotification(table, "didInitializeDevice", Self)
         IN  IF tryError = None
             THEN [state |-> "Ready", error |-> None, posted |-> tryPosted,
                   hookCalled |-> hookRan]
             ELSE IF handler.error # None
                  THEN [state |-> "Unrecognized", error |-> handler.error,
                        posted |-> tryPosted, hookCalled |-> hookRan]
                  ELSE [state |-> "Unrecognized", error |-> "UnableToInitialize",
                        posted |-> Append(tryPosted,
                                          Notice("didInitializeDevice", tryError)),
                        hookCalled |-> hookRan]
    ELSE [state |-> st, error |-> None, posted |-> <<>>, hookCalled |-> FALSE]

ShutdownDeviceAlways(st, table, hookRaises) ==
    [state |-> "Recognized", error |-> IF hookRaises THEN "UnableToShutdown" ELSE None,
     posted |-> <<>>, hookCalled |-> TRUE]

\* PhysicalDevice.shutdownDevice with no status thread to stop (the call of
\* stopBackgroundStatusUpdates at line 105 comes after the postNotification of
\* line 103, which raises for every PhysicalDeviceNotification member).
ShutdownDevice(st, table, hookRaises) ==
    IF st = "Ready"
    THEN LET will == PostNotification(table, "willShutdownDevice", Self)
             hookRan == will.error = None
             did == PostNotification(table, "didShutdownDevice", Self)
             tryError == IF will.error # None THEN will.error
                         ELSE IF hookRaises THEN "DeviceError"
                         ELSE did.error
             tryPosted == (IF will.error = None
                           THEN <<Notice("willShutdownDevice", None)>> ELSE <<>>)
                          \o (IF will.error = None /\ ~hookRaises /\ did.error = None
                              THEN <<Notice("didShutdownDevice", None)>> ELSE <<>>)
             handler == PostNotification(table, "didShutdownDevice", Self)
         IN  \* finally: self.state = DeviceState.Recognized
             IF tryError = None
             THEN [state |-> "Recognized", error |-> None, posted |-> tryPosted,
                   hookCalled |-> hookRan]
             ELSE IF handler.error # None
                  THEN [state |-> "Recognized", error |-> handler.error,
                        posted |-> tryPosted, hookCalled |-> hookRan]
                  ELSE [state |-> "Recognized", error |-> "UnableToShutdown",
                        posted |-> Append(tryPosted,
                                          Notice("didShutdownDevice", tryError)),
                        hookCalled |-> hookRan]
    ELSE [state |-> st, error |-> None, posted |-> <<>>, hookCalled |-> FALSE]

\* A completed call: who made it, what it raised, the device state before and
\* after it, whether the device hook was set to raise and whether it was called, what
\* isMonitoring answered,
\* the join() it made and the notifications the bus dispatched for it.
Call(c, op, error, from, to, hookRaises, hookCalled, wasMonitoring, joinedThread, notices) ==
    [caller |-> c, op |-> op, error |-> error, from |-> from, to |-> to,
     hookRaises |-> hookRaises, hookCalled |-> hookCalled,
     wasMonitoring |-> wasMonitoring, joined |-> joinedThread, posted |-> notices]

NoCall == Call(None, None, None, None, None, FALSE, FALSE, FALSE, NoJoin, <<>>)

\* PhysicalDevice.isMonitoring (read under the lock)
IsMonitoring == monitoring # NoThread

Return(c, call) ==
    /\ cpc' = [cpc EXCEPT ![c] = "idle"]
    /\ lastCall' = call

\* A caller thread calls initializeDevice().
Initialize(c) ==
    /\ cpc[c] = "idle"
    /\ \E hookRaises \in BOOLEAN :
          LET r == InitializeDevice(state, observers, hookRaises) IN
          /\ state' = r.state
          /\ Return(c, Call(c, "initialize", r.error, state, r.state, hookRaises, r.hookCalled, FALSE,
                            NoJoin, r.posted))
    /\ UNCHANGED <<monitoring, quitMonitoring, lock, tpc, joined, posted, busVars, portVars>>

\* A caller thread calls shutdownDevice().
Shutdown(c) ==
    /\ cpc[c] = "idle"
    /\ \E hookRaises \in BOOLEAN :
          LET r == ShutdownDevice(state, observers, hookRaises) IN
          /\ state = "Ready" /\ IsNotificationName("willShutdownDevice") => ~IsMonitoring
          /\ state' = r.state
          /\ Return(c, Call(c, "shutdown", r.error, state, r.state, hookRaises, r.hookCalled, FALSE,
                            NoJoin, r.posted))
    /\ UNCHANGED <<monitoring, quitMonitoring, lock, tpc, joined, posted, busVars, portVars>>

\* startBackgroundStatusUpdates: `with self.lock:` and the isMonitoring test.
\* RuntimeError("Monitoring loop already running") is written AlreadyPolling.
StartCheck(c) ==
    /\ cpc[c] = "idle"
    /\ lock = None
    /\ IF IsMonitoring
       THEN /\ Return(c, Call(c, "start", "AlreadyPolling", state, state, FALSE, FALSE, TRUE, NoJoin, <<>>))
            /\ UNCHANGED lock
       ELSE /\ \E t \in ThreadIds : tpc[t] = "unborn"
            /\ lock' = c
            /\ cpc' = [cpc EXCEPT ![c] = "start_create"]
            /\ UNCHANGED lastCall
    /\ UNCHANGED <<state, monitoring, quitMonitoring, tpc, joined, posted, busVars, portVars>>

\* self.quitMonitoring = False; self.monitoring = Thread(...)
StartCreate(c) ==
    /\ cpc[c] = "start_create"
    /\ LET t == CHOOSE u \in ThreadIds :
                   tpc[u] = "unborn" /\ \A v \in ThreadIds : tpc[v] = "unborn" => u <= v IN
       /\ quitMonitoring' = FALSE
       /\ monitoring' = t
       /\ tpc' = [tpc EXCEPT ![t] = "created"]
    /\ cpc' = [cpc EXCEPT ![c] = "start_run"]
    /\ UNCHANGED <<state, lock, joined, lastCall, posted, busVars, portVars>>

\* self.monitoring.start(), then the lock is released
StartRun(c) ==
    /\ cpc[c] = "start_run"
    /\ lock' = None
    /\ IF monitoring = NoThread
       THEN /\ Return(c, Call(c, "start", "AttributeError", state, state, FALSE, FALSE, FALSE, NoJoin, <<>>))
            /\ UNCHANGED tpc
       ELSE IF tpc[monitoring] = "created"
       THEN /\ tpc' = [tpc EXCEPT ![monitoring] = "getStatus"]
            /\ Return(c, Call(c, "start", None, state, state, FALSE, FALSE, FALSE, NoJoin, <<>>))
       ELSE /\ Return(c, Call(c, "start", "RuntimeError", state, state, FALSE, FALSE, FALSE, NoJoin, <<>>))
            /\ UNCHANGED tpc
    /\ UNCHANGED <<state, monitoring, quitMonitoring, joined, posted, busVars, portVars>>

\* stopBackgroundStatusUpdates: the isMonitoring test.
\* RuntimeError("No status loop running") is written NotPolling.
StopCheck(c) ==
    /\ cpc[c] = "idle"
    /\ lock = None
    /\ IF IsMonitoring
       THEN /\ cpc' = [cpc EXCEPT ![c] = "stop_setquit"]
            /\ UNCHANGED lastCall
       ELSE Return(c, Call(c, "stop", "NotPolling", state, state, FALSE, FALSE, FALSE, NoJoin, <<>>))
    /\ UNCHANGED <<state, monitoring, quitMonitoring, lock, tpc, joined, posted, busVars, portVars>>

\* with self.lock: self.quitMonitoring = True
StopSetQuit(c) ==
    /\ cpc[c] = "stop_setquit"
    /\ lock = None
    /\ quitMonitoring' = TRUE
    /\ cpc' = [cpc EXCEPT ![c] = "stop_join"]
    /\ UNCHANGED <<state, monitoring, lock, tpc, joined, lastCall, posted, busVars, portVars>>

\* self.monitoring.join(): the handle is read (outside the lock) and join() entered
StopJoin(c) ==
    /\ cpc[c] = "stop_join"
    /\ IF monitoring = NoThread
       THEN /\ Return(c, Call(c, "stop", "AttributeError", state, state, FALSE, FALSE, TRUE, NoJoin, <<>>))
            /\ UNCHANGED joined
       ELSE IF tpc[monitoring] = "created"
       THEN \* join() of a thread that was not started yet
            /\ Return(c, Call(c, "stop", "RuntimeError", state, state, FALSE, FALSE, TRUE, NoJoin, <<>>))
            /\ UNCHANGED joined
       ELSE /\ joined' = [joined EXCEPT ![c] =
                             [thread |-> monitoring, alive |-> tpc[monitoring] # "dead"]]
            /\ cpc' = [cpc EXCEPT ![c] = "stop_wait"]
            /\ UNCHANGED lastCall
    /\ UNCHANGED <<state, monitoring, quitMonitoring, lock, tpc, posted, busVars, portVars>>

\* join() returns once the thread has ended
StopWait(c) ==
    /\ cpc[c] = "stop_wait"
    /\ tpc[joined[c].thread] = "dead"
    /\ cpc' = [cpc EXCEPT ![c] = "stop_reset"]
    /\ UNCHANGED <<state, monitoring, quitMonitoring, lock, tpc, joined, lastCall, posted,
                   busVars, portVars>>

\* self.monitoring = None (outside the lock), and the call returns
StopReset(c) ==
    /\ cpc[c] = "stop_reset"
    /\ monitoring' = NoThread
    /\ joined' = [joined EXCEPT ![c] = NoJoin]
    /\ Return(c, Call(c, "stop", None, state, state, FALSE, FALSE, TRUE, joined[c], <<>>))
    /\ UNCHANGED <<state, quitMonitoring, lock, tpc, posted, busVars, portVars>>

\* backgroundStatusUpdates: userInfo = self.doGetStatusUserInfo()
PollGetStatus(t) ==
    /\ tpc[t] = "getStatus"
    /\ tpc' = [tpc EXCEPT ![t] = "post"]
    /\ UNCHANGED <<state, monitoring, quitMonitoring, lock, cpc, joined, lastCall, posted,
                   busVars, portVars>>

\* backgroundStatusUpdates: postNotification(status), whose exception ends the
\* thread; otherwise the quitMonitoring test under the lock and the sleep.
PollPost(t) ==
    /\ tpc[t] = "post"
    /\ LET r == PostNotification(observers, "status", Self) IN
       IF r.error # None
       THEN /\ tpc' = [tpc EXCEPT ![t] = "dead"]
            /\ UNCHANGED posted
       ELSE /\ lock = None
            /\ posted' = Append(posted, Notice("status", None))
            /\ tpc' = [tpc EXCEPT ![t] = IF quitMonitoring THEN "dead" ELSE "getStatus"]
    /\ UNCHANGED <<state, monitoring, quitMonitoring, lock, cpc, joined, lastCall,
                   busVars, portVars>>

DeviceNext ==
    \/ \E c \in Callers :
          \/ Initialize(c) \/ Shutdown(c)
          \/ StartCheck(c) \/ StartCreate(c) \/ StartRun(c)
          \/ StopCheck(c) \/ StopSetQuit(c) \/ StopJoin(c) \/ StopWait(c) \/ StopReset(c)
    \/ \E t \in ThreadIds : PollGetStatus(t) \/ PollPost(t)

(***************************************************************************)
(* CommunicationPort over EchoStringDebugCommunicationPort                 *)
(***************************************************************************)

PortThreads == {"p1", "p2"}

\* b'\n', the byte readString stops at (and the character `.` does not match)
LF == 10

\* The characters of the strings written: 'A', '\n' and a character that takes
\* two bytes in UTF-8.
Chars == {65, LF, 233}

\* The longest string written and the most bytes the output buffer is let to hold.
MaxStringLen == 2
MaxBuffer    == 4

RECURSIVE StringsOfLen(_)
StringsOfLen(n) ==
    IF n = 0 THEN {<<>>}
    ELSE {Append(s, c) : s \in StringsOfLen(n - 1), c \in Chars}

Strings == UNION {StringsOfLen(n) : n \in 1..MaxStringLen}

\* bytearray(string, "utf-8") / str.encode()
RECURSIVE Utf8Encode(_)
Utf8Encode(string) ==
    IF string = <<>> THEN <<>>
    ELSE LET c == Head(string) IN
         (IF c < 128 THEN <<c>> ELSE <<192 + (c \div 64), 128 + (c % 64)>>)
         \o Utf8Encode(Tail(string))

\* bytes.decode('utf-8'); <<-1>> stands for UnicodeDecodeError
RECURSIVE Utf8Decode(_)
Utf8Decode(bytes) ==
    IF bytes = <<>> THEN <<>>
    ELSE LET b == Head(bytes) IN
         IF b < 128
         THEN LET rest == Utf8Decode(Tail(bytes)) IN
              IF rest = <<-1>> THEN rest ELSE <<b>> \o rest
         ELSE IF b >= 192 /\ b < 224 /\ Len(bytes) >= 2
                 /\ bytes[2] >= 128 /\ bytes[2] < 192
         THEN LET rest == Utf8Decode(Tail(Tail(bytes))) IN
              IF rest = <<-1>> THEN rest
              ELSE <<(b - 192) * 64 + (bytes[2] - 128)>> \o rest
         ELSE <<-1>>

\* No match of a regular expression
NoMatch == [found |-> FALSE, groups |-> <<>>]

\* re.search('(.+)', string): the leftmost longest run of characters other than
\* '\n' is the one group
RECURSIVE RunFrom(_, _)
RunFrom(string, i) ==
    IF i > Len(string) \/ string[i] = LF THEN <<>>
    ELSE <<string[i]>> \o RunFrom(string, i + 1)

SearchDotPlus(string) ==
    IF \E i \in 1..Len(string) : string[i] # LF
    THEN LET first == CHOOSE i \in 1..Len(string) :
                         string[i] # LF /\ \A j \in 1..(i - 1) : string[j] = LF
         IN [found |-> TRUE, groups |-> <<RunFrom(string, first)>>]
    ELSE NoMatch

\* A reply pattern: the literal `text`, or with group: `(text)`
Patterns == {[text |-> <<65>>, group |-> FALSE], [text |-> <<233>>, group |-> TRUE]}

IsSubstring(text, string) ==
    \E i \in 0..(Len(string) - Len(text)) :
        \A j \in 1..Len(text) : string[i + j] = text[j]

SearchWholeMatch(pat, string) ==
    IF IsSubstring(pat.text, string)
    THEN [found |-> TRUE, groups |-> <<pat.text>>]
    ELSE NoMatch

\* re.search(replyPattern, reply) and match.groups()
Search(pat, string) ==
    IF IsSubstring(pat.text, string)
    THEN [found |-> TRUE, groups |-> IF pat.group THEN <<pat.text>> ELSE <<>>]
    ELSE NoMatch

\* DebugCommunicationPort.writeData for the one command of
\* EchoStringDebugCommunicationPort (CommandString 'echoString', '(.+)'):
\* the bytes appended to the output buffer
EchoStringReply(bytes) ==
    IF SearchDotPlus(Utf8Decode(bytes)).found
    THEN Utf8Encode(Utf8Decode(bytes))      \* processCommand returns inputString
    ELSE <<>>

Outcome(p, reply, result, groups) ==
    [thread |-> p, reply |-> reply, result |-> result, groups |-> groups]

NoOutcome == Outcome(None, <<>>, None, <<>>)

\* A thread calls writeStringReadMatchingGroups and waits for the transaction lock.
PortCall(p) ==
    /\ ppc[p] = "idle"
    /\ ppc' = [ppc EXCEPT ![p] = "acquire"]
    /\ UNCHANGED <<outputBuffer, transactionLock, request, pattern, data, outcome,
                   bufAtLock, busVars, devVars, simVars>>

\* The transaction starts with the arguments (string, replyPattern) of the call.
PortEnter(p, string, pat) ==
    /\ Len(outputBuffer) + Len(Utf8Encode(string)) <= MaxBuffer
    /\ request' = [request EXCEPT ![p] = string]
    /\ pattern' = [pattern EXCEPT ![p] = pat]
    /\ transactionLock' = p
    /\ bufAtLock' = [bufAtLock EXCEPT ![p] = outputBuffer]
    /\ ppc' = [ppc EXCEPT ![p] = "write"]
    /\ UNCHANGED <<outputBuffer, data, outcome, busVars, devVars, simVars>>

PortAcquireUnguarded(p) ==
    /\ ppc[p] = "acquire"
    /\ \E string \in Strings, pat \in Patterns : PortEnter(p, string, pat)

\* with self.transactionLock: the thread goes on once no other thread holds the lock
PortAcquire(p) ==
    /\ ppc[p] = "acquire"
    /\ transactionLock = None
    /\ \E string \in Strings, pat \in Patterns : PortEnter(p, string, pat)

\* self.writeString(string): writeData extends the output buffer by the reply
PortWrite(p) ==
    /\ ppc[p] = "write"
    /\ outputBuffer' = outputBuffer \o EchoStringReply(Utf8Encode(request[p]))
    /\ data' = [data EXCEPT ![p] = <<>>]
    /\ ppc' = [ppc EXCEPT ![p] = "read"]
    /\ UNCHANGED <<transactionLock, request, pattern, outcome, bufAtLock, busVars, devVars, simVars>>

\* the transaction ends: the lock is released and the locals are gone
PortReturn(p, result) ==
    /\ outcome' = result
    /\ transactionLock' = IF transactionLock = p THEN None ELSE transactionLock
    /\ request' = [request EXCEPT ![p] = <<>>]
    /\ pattern' = [pattern EXCEPT ![p] = [text |-> <<>>, group |-> FALSE]]
    /\ data' = [data EXCEPT ![p] = <<>>]
    /\ bufAtLock' = [bufAtLock EXCEPT ![p] = <<>>]
    /\ ppc' = [ppc EXCEPT ![p] = "idle"]

\* readString: one turn of its loop, byte = self.readData(1); data += byte
PortReadByte(p) ==
    /\ ppc[p] = "read"
    /\ IF outputBuffer = <<>>
       THEN \* DebugCommunicationPort.readData raises CommunicationReadTimeout
            /\ PortReturn(p, Outcome(p, <<>>, "ReadTimeout", <<>>))
            /\ UNCHANGED outputBuffer
       ELSE /\ outputBuffer' = Tail(outputBuffer)
            /\ data' = [data EXCEPT ![p] = Append(data[p], Head(outputBuffer))]
            /\ ppc' = [ppc EXCEPT ![p] = IF Head(outputBuffer) = LF THEN "match" ELSE "read"]
            /\ UNCHANGED <<transactionLock, request, pattern, outcome, bufAtLock>>
    /\ UNCHANGED <<busVars, devVars, simVars>>

\* string = data.decode('utf-8'); match = re.search(replyPattern, reply) and the
\* return of match.groups() or CommunicationReadNoMatch
PortMatch(p) ==
    /\ ppc[p] = "match"
    /\ LET reply == Utf8Decode(data[p])
           match == Search(pattern[p], reply)
       IN  IF reply = <<-1>>
           THEN PortReturn(p, Outcome(p, <<>>, "UnicodeDecodeError", <<>>))
           ELSE IF match.found
           THEN PortReturn(p, Outcome(p, reply, "ok", match.groups))
           ELSE PortReturn(p, Outcome(p, reply, "NoMatch", <<>>))
    /\ UNCHANGED <<outputBuffer, busVars, devVars, simVars>>

PortNext ==
    \E p \in PortThreads :
        PortCall(p) \/ PortAcquire(p) \/ PortWrite(p) \/ PortReadByte(p) \/ PortMatch(p)

(***************************************************************************)
(* DebugCommunicationPort and its subclasses: writeData, readData and the   *)
(* calls built on them                                                     *)
(***************************************************************************)

\* The bytes payloads are made of: 'A', '\n' and the two bytes of a two-byte
\* UTF-8 character, each of which alone is not valid UTF-8.
PayloadBytes == {65, LF, 195, 169}

\* The longest payload written and the most bytes the output buffer is let to hold.
MaxPayload == 2
MaxOutput  == 3

RECURSIVE PayloadsOfLen(_)
PayloadsOfLen(n) ==
    IF n = 0 THEN {<<>>}
    ELSE {Append(d, b) : d \in PayloadsOfLen(n - 1), b \in PayloadBytes}

Payloads == UNION {PayloadsOfLen(n) : n \in 0..MaxPayload}

\* bytearray.hex(): two characters '0'..'9', 'a'..'f' for every byte
HexDigit(n) == IF n < 10 THEN 48 + n ELSE 87 + n

RECURSIVE Hex(_)
Hex(bytes) ==
    IF bytes = <<>> THEN <<>>
    ELSE <<HexDigit(Head(bytes) \div 16), HexDigit(Head(bytes) % 16)>> \o Hex(Tail(bytes))

\* The regular expressions of commands: '(.+)' or a literal text
DotPlus == [dotplus |-> TRUE, text |-> <<>>]
Literal(text) == [dotplus |-> FALSE, text |-> text]

CommandString(name, pat) == [kind |-> "CommandString", name |-> name, pattern |-> pat]
CommandData(name, hexPattern) == [kind |-> "CommandData", name |-> name, pattern |-> hexPattern]

\* re.search(pattern, string) is not None
Found(pat, string) ==
    IF pat.dotplus THEN SearchDotPlus(string).found ELSE IsSubstring(pat.text, string)

\* CommandString.match / CommandData.match: whether groups is not None, or the
\* exception of inputData.decode('utf-8')
CommandMatch(command, bytes) ==
    IF command.kind = "CommandData"
    THEN (IF Found(command.pattern, Hex(bytes)) THEN "match" ELSE "none")
    ELSE IF Utf8Decode(bytes) = <<-1>> THEN "UnicodeDecodeError"
    ELSE IF Found(command.pattern, Utf8Decode(bytes)) THEN "match" ELSE "none"

\* The one command name each processCommand answers
EchoName(class) == IF class = "EchoString" THEN "echoString" ELSE "echoData"

ProcessCommandNoReply(class, command, bytes) ==
    [error |-> IF command.name # EchoName(class) THEN "NameError" ELSE None,
     replyData |-> <<>>]

\* processCommand of the Echo ports followed by the conversion writeData makes:
\* the input comes back; any other command name ends in the raise statement, whose
\* exception class is not defined in the module (NameError)
ProcessCommand(class, command, bytes) ==
    IF command.name # EchoName(class)
    THEN [error |-> "NameError", replyData |-> <<>>]
    ELSE IF command.kind = "CommandData"
    THEN [error |-> None, replyData |-> bytes]
    ELSE [error |-> None, replyData |-> Utf8Encode(Utf8Decode(bytes))]

\* The loop of DebugCommunicationPort.writeData from command i on: the index of
\* the command that was processed (0: none), the reply and the exception
RECURSIVE ScanCommands(_, _, _, _)
ScanCommands(class, cmds, i, bytes) ==
    IF i > Len(cmds) THEN [matched |-> 0, replyData |-> <<>>, error |-> None]
    ELSE LET m == CommandMatch(cmds[i], bytes) IN
         IF m = "UnicodeDecodeError"
         THEN [matched |-> 0, replyData |-> <<>>, error |-> m]
         ELSE IF m = "match"
         THEN LET r == ProcessCommand(class, cmds[i], bytes) IN
              [matched |-> i, replyData |-> r.replyData, error |-> r.error]
         ELSE ScanCommands(class, cmds, i + 1, bytes)

\* No integer: the None of `length`, no value returned
NoInt == -1

\* writeData of the class of the port: the output buffer after the call, the
\* value returned and the exception
WriteData(class, cmds, buffer, bytes) ==
    IF class = "DebugEcho"
    THEN \* usbport.DebugEchoCommunicationPort: self.buffer.extend(data); return len(data)
         [outputBuffer |-> buffer \o bytes, returned |-> Len(bytes), error |-> None,
          matched |-> 0]
    ELSE LET r == ScanCommands(class, cmds, 1, bytes) IN
         IF r.error # None
         THEN [outputBuffer |-> buffer, returned |-> NoInt, error |-> r.error,
               matched |-> r.matched]
         ELSE [outputBuffer |-> buffer \o r.replyData, returned |-> Len(r.replyData),
               error |-> None, matched |-> r.matched]

Take(bytes, n) == SubSeq(bytes, 1, n)
Drop(bytes, n) == SubSeq(bytes, n + 1, Len(bytes))

ReadDataShort(buffer, length) ==
    IF length = NoInt
    THEN [outputBuffer |-> buffer, data |-> <<>>, error |-> "TypeError"]
    ELSE IF Len(buffer) >= length
    THEN [outputBuffer |-> Drop(buffer, length), data |-> Take(buffer, length),
          error |-> None]
    ELSE [outputBuffer |-> <<>>, data |-> buffer, error |-> None]

\* readData(length): bytes are popped one by one; when the buffer runs out the
\* bytes popped so far are gone with the local bytearray
ReadData(buffer, length) ==
    IF length = NoInt
    THEN \* DebugCommunicationPort only: data.append(self.outputBuffer)
         [outputBuffer |-> buffer, data |-> <<>>, error |-> "TypeError"]
    ELSE IF Len(buffer) >= length
    THEN [outputBuffer |-> Drop(buffer, length), data |-> Take(buffer, length),
          error |-> None]
    ELSE [outputBuffer |-> <<>>, data |-> <<>>, error |-> "ReadTimeout"]

\* The bytes of a buffer up to and including its first line feed.
RECURSIVE FirstLine(_)
FirstLine(bytes) ==
    IF bytes = <<>> THEN <<>>
    ELSE IF Head(bytes) = LF THEN <<LF>>
    ELSE <<Head(bytes)>> \o FirstLine(Tail(bytes))

\* A completed call on the port
IO(op, bytes, length, before, returned, error, matched) ==
    [op |-> op, data |-> bytes, length |-> length, before |-> before,
     returned |-> returned, error |-> error, matched |-> matched]

NoIO == IO(None, <<>>, NoInt, <<>>, NoInt, None, 0)

\* The lengths readData is called with
Lengths == 0..MaxOutput

\* port.writeData(data)
PortWriteData ==
    \E bytes \in Payloads :
        LET r == WriteData(portClass, commands, outputBuffer, bytes) IN
        /\ Len(r.outputBuffer) <= MaxOutput
        /\ outputBuffer' = r.outputBuffer
        /\ lastIO' = IO("writeData", bytes, NoInt, outputBuffer, r.returned, r.error,
                        r.matched)
        /\ UNCHANGED <<portClass, commands, lastTransaction, transactionLock, ppc, request,
                       pattern, data, outcome, bufAtLock, busVars, devVars>>

\* port.readData(length)
PortReadData ==
    \* length=None is the default of DebugCommunicationPort.readData only
    \E length \in Lengths \cup (IF portClass = "DebugEcho" THEN {} ELSE {NoInt}) :
        LET r == ReadData(outputBuffer, length) IN
        /\ outputBuffer' = r.outputBuffer
        /\ lastIO' = IO("readData", r.data, length, outputBuffer, NoInt, r.error, 0)
        /\ UNCHANGED <<portClass, commands, lastTransaction, transactionLock, ppc, request,
                       pattern, data, outcome, bufAtLock, busVars, devVars>>


\* The text 'PING' and the line 'PING\n'
Ping == <<80, 73, 78, 71>>
PingLine == Ping \o <<LF>>

\* The strings written by the calls: 'PING\n', 'A\n', a line of a two-byte
\* character, a string without line feed and one that goes on after its line feed
Requests == {PingLine, <<65, LF>>, <<233, LF>>, <<65>>, <<LF, 65>>}

\* The reply patterns of the calls: 'A', 'PING', '(PING)', 'PONG'
Pong == [text |-> <<80, 79, 78, 71>>, group |-> FALSE]

ReplyPatterns ==
    {[text |-> <<65>>, group |-> FALSE], [text |-> Ping, group |-> FALSE],
     [text |-> Ping, group |-> TRUE], Pong}

\* alternatePattern: <<>> is None, <<pat>> a pattern
AlternatePatterns == {<<>>, <<[text |-> Ping, group |-> FALSE]>>, <<Pong>>}

\* CommunicationPort.readString on a DebugCommunicationPort: bytes are read one
\* by one up to the first b'\n' and decoded; without a b'\n' readData raises once
\* the buffer is empty
ReadString(buffer) ==
    IF \E i \in 1..Len(buffer) : buffer[i] = LF
    THEN LET line == FirstLine(buffer) IN
         IF Utf8Decode(line) = <<-1>>
         THEN [outputBuffer |-> Drop(buffer, Len(line)), string |-> <<>>,
               error |-> "UnicodeDecodeError"]
         ELSE [outputBuffer |-> Drop(buffer, Len(line)), string |-> Utf8Decode(line),
               error |-> None]
    ELSE [outputBuffer |-> <<>>, string |-> <<>>, error |-> "ReadTimeout"]

\* What a call hands back: the exception, the groups or the string returned
Handed(error, groups, value) == [error |-> error, groups |-> groups, value |-> value]

\* writeStringExpectMatchingString after reply = self.readString()
ExpectMatchingString(reply, replyPattern, alternatePattern) ==
    IF ~Search(replyPattern, reply).found
    THEN IF alternatePattern # <<>> /\ ~Search(alternatePattern[1], reply).found
         THEN Handed("AlternateMatch", <<>>, <<>>)
         ELSE Handed("NoMatch", <<>>, <<>>)
    ELSE Handed(None, <<>>, reply)

\* writeStringReadMatchingGroups after reply = self.readString()
ReadMatchingGroups(reply, replyPattern, alternatePattern) ==
    IF Search(replyPattern, reply).found
    THEN Handed(None, Search(replyPattern, reply).groups, <<>>)
    ELSE Handed("NoMatch", <<>>, <<>>)

\* writeStringReadFirstMatchingGroup around writeStringReadMatchingGroups
ReadFirstMatchingGroup(reply, replyPattern, alternatePattern) ==
    LET r == ReadMatchingGroups(reply, replyPattern, alternatePattern) IN
    IF r.error # None THEN r
    ELSE IF Len(r.groups) >= 1 THEN Handed(None, <<>>, r.groups[1])
    ELSE Handed("NoMatch", <<>>, <<>>)

Evaluate(method, reply, replyPattern, alternatePattern) ==
    IF method = "writeStringExpectMatchingString"
    THEN ExpectMatchingString(reply, replyPattern, alternatePattern)
    ELSE IF method = "writeStringReadFirstMatchingGroup"
    THEN ReadFirstMatchingGroup(reply, replyPattern, alternatePattern)
    ELSE ReadMatchingGroups(reply, replyPattern, alternatePattern)

\* A completed call: its method and arguments, the output buffer it found, the
\* reply line it read and what it handed back
Transaction(method, string, replyPattern, alternatePattern, before, reply, handed) ==
    [method |-> method, string |-> string, replyPattern |-> replyPattern,
     alternatePattern |-> alternatePattern, before |-> before, reply |-> reply,
     error |-> handed.error, groups |-> handed.groups, value |-> handed.value]

NoTransaction ==
    Transaction(None, <<>>, [text |-> <<>>, group |-> FALSE], <<>>, <<>>, <<>>,
                Handed(None, <<>>, <<>>))

\* One whole call of a method, by one thread: self.writeString(string),
\* reply = self.readString(), then the method's matching
Transact(method) ==
    \E string \in Requests, replyPattern \in ReplyPatterns,
       alternatePattern \in AlternatePatterns :
        LET w == WriteData(portClass, commands, outputBuffer, Utf8Encode(string))
            r == ReadString(w.outputBuffer)
            handed == IF r.error # None THEN Handed(r.error, <<>>, <<>>)
                      ELSE Evaluate(method, r.string, replyPattern, alternatePattern)
        IN  /\ Len(r.outputBuffer) <= MaxOutput
            /\ outputBuffer' = r.outputBuffer
            /\ lastTransaction' = Transaction(method, string, replyPattern,
                                              alternatePattern, outputBuffer,
                                              r.string, handed)
            /\ UNCHANGED <<portClass, commands, lastIO, transactionLock, ppc, request,
                           pattern, data, outcome, bufAtLock, busVars, devVars>>

WriteStringExpectMatchingString == Transact("writeStringExpectMatchingString")

WriteStringReadFirstMatchingGroup == Transact("writeStringReadFirstMatchingGroup")

WriteStringReadMatchingGroups == Transact("writeStringReadMatchingGroups")

(***************************************************************************)
(* Initial state                                                           *)
(***************************************************************************)

\* The objects as constructed, the port's class left open
InitObjects ==
    /\ observers = EmptyTable
    /\ delivered = <<>>
    /\ lastOp = BusOp(None, None, None, None, None, 0)
    /\ registered = <<>>
    /\ bpc = [t \in BusThreads |-> "idle"]
    /\ bcall = [t \in BusThreads |-> NoBusCall]
    /\ blocal = [t \in BusThreads |-> <<>>]
    /\ base = EmptyTable
    /\ state = "Unconfigured"
    /\ monitoring = NoThread
    /\ quitMonitoring = FALSE
    /\ lock = None
    /\ tpc = [t \in ThreadIds |-> "unborn"]
    /\ cpc = [c \in Callers |-> "idle"]
    /\ joined = [c \in Callers |-> NoJoin]
    /\ lastCall = NoCall
    /\ posted = <<>>
    /\ outputBuffer = <<>>
    /\ transactionLock = None
    /\ ppc = [p \in PortThreads |-> "idle"]
    /\ request = [p \in PortThreads |-> <<>>]
    /\ pattern = [p \in PortThreads |-> [text |-> <<>>, group |-> FALSE]]
    /\ data = [p \in PortThreads |-> <<>>]
    /\ outcome = NoOutcome
    /\ bufAtLock = [p \in PortThreads |-> <<>>]
    /\ lastIO = NoIO
    /\ lastTransaction = NoTransaction

\* The port is an EchoStringDebugCommunicationPort
Init ==
    /\ InitObjects
    /\ portClass = "EchoString"
    /\ commands = <<CommandString("echoString", DotPlus)>>

\* The ports written to and read from: the three shipped classes as their
\* constructors leave them, and Echo ports that were given two commands
Ports ==
    { [class |-> "EchoString", commands |-> <<CommandString("echoString", DotPlus)>>],
      [class |-> "EchoData", commands |-> <<CommandData("echoData", DotPlus)>>],
      [class |-> "DebugEcho", commands |-> <<>>],
      [class |-> "EchoString",
       commands |-> <<CommandString("echoString", Literal(<<65>>)),
                      CommandString("other", DotPlus)>>],
      [class |-> "EchoString",
       commands |-> <<CommandString("other", Literal(<<65>>)),
                      CommandString("echoString", DotPlus)>>],
      [class |-> "EchoData",
       commands |-> <<CommandString("echoData", Literal(<<65>>)),
                      CommandData("echoData", DotPlus)>>],
      [class |-> "EchoData",
       commands |-> <<CommandData("echoData", Literal(<<48, 97>>)),
                      CommandData("echoData", Literal(<<52, 49>>))>>] }

InitPorts ==
    /\ InitObjects
    /\ \E port \in Ports : portClass = port.class /\ commands = port.commands

SpecBus == Init /\ [][BusNext]_vars

SpecBusHistory == Init /\ [][BusHistoryNext]_vars

SpecBusThreads == Init /\ [][BusThreadsNext]_vars

SpecDevice == Init /\ [][DeviceNext]_vars

SpecPort == Init /\ [][PortNext]_vars

PortIONext == PortWriteData \/ PortReadData

SpecPortIO == InitPorts /\ [][PortIONext]_vars

TransactNext ==
    \/ WriteStringExpectMatchingString
    \/ WriteStringReadFirstMatchingGroup
    \/ WriteStringReadMatchingGroups

SpecTransact == Init /\ [][TransactNext]_vars

(***************************************************************************)
(* Properties                                                              *)
(***************************************************************************)

\* Between the acquisition of the transaction lock and its release
InTransaction(p) == ppc[p] \in {"write", "read", "match"}

NoInterleaving == \A p, q \in PortThreads : InTransaction(p) /\ InTransaction(q) => p = q

C2_InitializeEndsReady ==
    (lastCall.op = "initialize" /\ lastCall.from = "Unconfigured" /\ ~lastCall.hookRaises)
    => /\ lastCall.to = "Ready"
       /\ lastCall.error = None
       /\ lastCall.posted = <<Notice("willInitializeDevice", None),
                              Notice("didInitializeDevice", None)>>

\* C3: initializeDevice() on a device that is not Ready whose doInitializeDevice
\* raises leaves the state Unrecognized, has didInitializeDevice dispatched with the
\* error as userInfo and raises UnableToInitialize.
C3_InitializeFailureReported ==
    (lastCall.op = "initialize" /\ lastCall.from # "Ready" /\ lastCall.hookRaises)
    => /\ lastCall.to = "Unrecognized"
       /\ lastCall.error = "UnableToInitialize"
       /\ Len(lastCall.posted) > 0
       /\ lastCall.posted[Len(lastCall.posted)] = Notice("didInitializeDevice", "DeviceError")

\* C4: shutdownDevice() on a Ready device, the device that an initializeDevice()
\* with a succeeding hook leaves behind, ends Recognized whether doShutdownDevice
\* succeeds or raises, and raises UnableToShutdown when it raises.
C4_ShutdownEndsRecognized ==
    [][ ( /\ lastCall.op = "initialize" /\ ~lastCall.hookRaises
          /\ lastCall'.op = "shutdown" )
        => /\ lastCall'.to = "Recognized"
           /\ lastCall'.hookRaises => lastCall'.error = "UnableToShutdown" ]_vars

\* The status threads that were started and have not ended
Running == {t \in ThreadIds : tpc[t] \in {"getStatus", "post"}}

\* A stopBackgroundStatusUpdates() that returned normally joined a status thread
\* that has ended.
StopJoinedEndedThread ==
    (lastCall.op = "stop" /\ lastCall.error = None)
    => /\ lastCall.joined.thread \in ThreadIds
       /\ tpc[lastCall.joined.thread] = "dead"

\* C5: a stopBackgroundStatusUpdates() returns only once the status thread has
\* ended, so that no status notification follows its return, and one called while
\* no status loop is running does not go on but raises
\* RuntimeError("No status loop running").
C5_StopWaitsOrRaises ==
    /\ []StopJoinedEndedThread
    /\ [][ \A c \in Callers :
              (cpc[c] = "idle" /\ cpc'[c] = "stop_setquit") => Running # {} ]_vars

\* C6: at most one status thread of the device is running at any time, whatever
\* the interleaving of start and stop calls.
C6_AtMostOneStatusThread == Cardinality(Running) <= 1

\* The rule of the data model: same observer, and name and object filters equal
\* or absent on either side.
SameRegistration(a, b) ==
    /\ a.observer = b.observer
    /\ a.notificationName = None \/ b.notificationName = None
       \/ a.notificationName = b.notificationName
    /\ a.observedObject = None \/ b.observedObject = None
       \/ a.observedObject = b.observedObject

\* A registration that a post of `name` by `source` is meant for
MeantFor(info, name, source) ==
    /\ info.notificationName \in {None, name}
    /\ info.observedObject \in {None, source}

DistinctObservers(list) ==
    \A i, j \in 1..Len(list) : i # j => list[i].observer # list[j].observer

\* C7: after addObserver calls by distinct observers, postNotification(name, source)
\* calls the method of every registration made whose filters admit name and source,
\* each once, in the order of registration.
C7_PostReachesEveryRegistration ==
    (lastOp.op = "post" /\ lastOp.error = None /\ DistinctObservers(registered))
    => delivered = SelectSeq(registered,
                             LAMBDA info : MeantFor(info, lastOp.name, lastOp.object))

\* C8: after removeObserver(observer, name?, object?) no registration of that
\* observer that the filters select is left, and a postNotification with a name and
\* a source the filters admit does not call that observer.
C8_RemovedObserverNotCalled ==
    (lastOp.op = "remove" /\ lastOp.error = None)
    => /\ \A k \in DOMAIN observers : \A i \in 1..Len(observers[k]) :
             ~SameRegistration(observers[k][i],
                               ObserverInfo(lastOp.observer, lastOp.name, lastOp.object))
       /\ \A name \in NotificationNames, source \in Objects :
             (lastOp.name \in {None, name} /\ lastOp.object \in {None, source})
             => LET called == PostNotification(observers, name, source).delivered IN
                \A i \in 1..Len(called) : called[i].observer # lastOp.observer

\* A removeObserver without a name has removed the observer's registrations under
\* two names.
C8_Witness ==
    /\ lastOp.op = "remove" /\ lastOp.error = None
    /\ lastOp.name = None
    /\ lastOp.removed = 2

\* C9: an addObserver for which an equal registration is already in the table
\* leaves the table as it was.
C9_AddEqualRegistrationChangesNothing ==
    [][ ( /\ lastOp'.op = "add"
          /\ lastOp'.error = None
          /\ \E k \in DOMAIN observers : \E i \in 1..Len(observers[k]) :
                SameRegistration(observers[k][i],
                                 ObserverInfo(lastOp'.observer, lastOp'.name,
                                              lastOp'.object)) )
        => observers' = observers ]_vars

\* C10: a postNotification(name, source) calls no registration whose observedObject
\* is an object other than source.
C10_OtherObjectNotCalled ==
    lastOp.op = "post" =>
       \A k \in DOMAIN observers : \A i \in 1..Len(observers[k]) :
          observers[k][i].observedObject \notin {None, lastOp.object}
          => \A j \in 1..Len(delivered) : delivered[j] # observers[k][i]

\* A post went past a registration of its name that observes another object.
C10_Witness ==
    /\ lastOp.op = "post" /\ lastOp.error = None
    /\ lastOp.name \in DOMAIN observers
    /\ \E i \in 1..Len(observers[lastOp.name]) :
          observers[lastOp.name][i].observedObject \notin {None, lastOp.object}
    /\ delivered = <<>>

\* The shipped ports that echo what is written: the one command '(.+)' of the two
\* Echo ports, and usbport's DebugEchoCommunicationPort
IsEchoPort ==
    \/ portClass = "DebugEcho"
    \/ commands = <<CommandString("echoString", DotPlus)>> /\ portClass = "EchoString"
    \/ commands = <<CommandData("echoData", DotPlus)>> /\ portClass = "EchoData"

\* A write to an empty output buffer followed directly by a read of as many bytes
\* as were written
WriteThenReadSameLength ==
    /\ lastIO.op = "writeData" /\ lastIO.before = <<>>
    /\ lastIO'.op = "readData" /\ lastIO'.length = Len(lastIO.data)

RoundTrip ==
    /\ lastIO.error = None
    /\ lastIO'.error = None
    /\ lastIO'.data = lastIO.data

\* C11 as stated: on an echo port with an empty output buffer, writeData(d) followed
\* by readData(len(d)) returns d, for every byte sequence d.
C11_EchoRoundTrip ==
    [][ (IsEchoPort /\ WriteThenReadSameLength) => RoundTrip ]_vars

\* Text the string echo port sends back whole: nothing, or valid UTF-8 with a
\* character other than the line feed for '(.+)' to match
EchoedAsText(bytes) ==
    \/ bytes = <<>>
    \/ Utf8Decode(bytes) # <<-1>> /\ SearchDotPlus(Utf8Decode(bytes)).found

\* C11 amended: the round trip holds for every d on the binary echo port (and on
\* DebugEchoCommunicationPort), and on the string echo port for every d that is
\* empty or valid UTF-8 with at least one character other than a line feed.
C11_BinaryEchoRoundTrip ==
    [][ ( /\ IsEchoPort
          /\ WriteThenReadSameLength
          /\ portClass = "EchoString" => EchoedAsText(lastIO.data) )
        => RoundTrip ]_vars

\* A payload of the greatest length, with a line feed in it, came back whole from
\* the binary echo port.
C11_Witness ==
    /\ portClass = "EchoData" /\ Len(commands) = 1
    /\ lastIO.op = "readData" /\ lastIO.error = None
    /\ lastIO.length = MaxPayload
    /\ lastIO.before = lastIO.data
    /\ \E i \in 1..Len(lastIO.data) : lastIO.data[i] = LF

\* C12: readData(n) on a buffer of fewer than n bytes raises
\* CommunicationReadTimeout, and a readData(n) that returns gives exactly n bytes,
\* the first n of the buffer.
C12_NoShortRead ==
    (lastIO.op = "readData" /\ lastIO.length # NoInt)
    => /\ Len(lastIO.before) < lastIO.length => lastIO.error = "ReadTimeout"
       /\ lastIO.error = None =>
             /\ Len(lastIO.data) = lastIO.length
             /\ lastIO.data = Take(lastIO.before, lastIO.length)

\* A read of more bytes than the buffer held, which was not empty, has timed out.
C12_Witness ==
    /\ lastIO.op = "readData" /\ lastIO.error = "ReadTimeout"
    /\ lastIO.before # <<>>
    /\ Len(lastIO.before) < lastIO.length

\* The commands whose pattern matches the payload
Matching(bytes) ==
    {i \in 1..Len(commands) : CommandMatch(commands[i], bytes) = "match"}

\* C13: on a writeData the first command, in the order of self.commands, whose
\* pattern matches the payload is the one processed and its reply is what the output
\* buffer grows by; when no command matches the output buffer is left as it was.
C13_FirstMatcherReplies ==
    (lastIO.op = "writeData" /\ portClass # "DebugEcho")
    => IF Matching(lastIO.data) = {}
       THEN outputBuffer = lastIO.before
       ELSE LET first == CHOOSE i \in Matching(lastIO.data) :
                            \A j \in Matching(lastIO.data) : i <= j
            IN  /\ lastIO.matched = first
                /\ outputBuffer = lastIO.before
                      \o ProcessCommand(portClass, commands[first], lastIO.data).replyData

\* Both commands of a port matched the payload and the first one produced the reply.
C13_Witness ==
    /\ lastIO.op = "writeData" /\ lastIO.error = None
    /\ Matching(lastIO.data) = {1, 2}
    /\ lastIO.matched = 1
    /\ outputBuffer = lastIO.before \o lastIO.data

\* C16: a writeData(data) that returns gives len(data), whether or not a command
\* matched and whatever the length of the reply.
C16_WriteReturnsLengthOfData ==
    (lastIO.op = "writeData" /\ lastIO.error = None)
    => lastIO.returned = Len(lastIO.data)

\* A write returned the length of its payload although no command matched it:
\* DebugEchoCommunicationPort has no commands.
C16_Witness ==
    /\ lastIO.op = "writeData" /\ lastIO.error = None
    /\ portClass = "DebugEcho"
    /\ lastIO.data # <<>>
    /\ lastIO.returned = Len(lastIO.data)

\* The last call read a reply line
ReplyRead ==
    /\ lastTransaction.method # None
    /\ lastTransaction.error \notin {"ReadTimeout", "UnicodeDecodeError"}

\* C14: when the reply line does not match replyPattern, the call raises
\* CommunicationReadAlternateMatch if alternatePattern is given and matches the
\* reply, and CommunicationReadNoMatch otherwise.
C14_AlternateMatchOrNoMatch ==
    (ReplyRead /\ ~Search(lastTransaction.replyPattern, lastTransaction.reply).found)
    => IF /\ lastTransaction.alternatePattern # <<>>
          /\ Search(lastTransaction.alternatePattern[1], lastTransaction.reply).found
       THEN lastTransaction.error = "AlternateMatch"
       ELSE lastTransaction.error = "NoMatch"

\* A call whose reply matched the alternate pattern only has ended.
C14_Witness ==
    /\ ReplyRead
    /\ lastTransaction.method = "writeStringExpectMatchingString"
    /\ ~Search(lastTransaction.replyPattern, lastTransaction.reply).found
    /\ lastTransaction.alternatePattern # <<>>
    /\ Search(lastTransaction.alternatePattern[1], lastTransaction.reply).found

\* Every concurrent call has returned
AllReturned == \A t \in BusThreads : bpc[t] = "done"

\* The table a completed call makes of a table when it runs alone
After(call, table) ==
    IF call.op = "add"
    THEN AddObserver(table, call.observer, call.name, call.object).observers
    ELSE IF call.op = "remove"
    THEN RemoveObserver(table, call.observer, call.name, call.object).observers
    ELSE table

\* The registrations of a table
Registrations(table) ==
    UNION {{table[k][i] : i \in 1..Len(table[k])} : k \in DOMAIN table}

\* No registration that was in the table or was made by a completed addObserver
\* is missing, unless a removeObserver of these calls matches it
NoRegistrationLost ==
    LET made == Registrations(base)
                \cup {ObserverInfo(bcall[t].observer, bcall[t].name, bcall[t].object) :
                        t \in {u \in BusThreads :
                                  bcall[u].op = "add" /\ bcall[u].error = None}}
        removed(info) ==
            \E t \in BusThreads :
                /\ bcall[t].op = "remove"
                /\ SameRegistration(info, ObserverInfo(bcall[t].observer, bcall[t].name,
                                                       bcall[t].object))
    IN  \A info \in made :
           ~removed(info) => \E kept \in Registrations(observers) : SameRegistration(kept, info)

\* The table is the one some sequential order of the calls gives
SomeSequentialOrder ==
    \E t, u \in BusThreads :
        /\ t # u
        /\ observers = After(bcall[u], After(bcall[t], base))

\* C15: whatever the interleaving of addObserver, removeObserver and
\* postNotification calls of several threads, no registration of a completed
\* addObserver is lost unless a matching removeObserver removed it, and the table
\* is the one that some sequential order of the calls gives.
C15_TableSafeUnderConcurrency ==
    AllReturned => (NoRegistrationLost /\ SomeSequentialOrder)

\* A removeObserver was overtaken by an addObserver of the other thread between
\* its read and its store, and both have returned.
C15_Witness ==
    /\ AllReturned
    /\ bcall["b1"].op = "remove" /\ bcall["b1"].error = None
    /\ bcall["b2"].op = "add" /\ bcall["b2"].error = None
    /\ bcall["b1"].name = bcall["b2"].name
    /\ ~SomeSequentialOrder

ReadsGroups == lastTransaction.method = "writeStringReadMatchingGroups"
ReadsFirstGroup == lastTransaction.method = "writeStringReadFirstMatchingGroup"

\* The line-oriented call 'PING\n' on an empty output buffer with this pattern
PingCall(replyPattern) ==
    /\ lastTransaction.string = PingLine
    /\ lastTransaction.before = <<>>
    /\ lastTransaction.replyPattern = replyPattern

\* What both readings of C17 share: a reply that matches replyPattern gives the
\* groups of the match (the first-group call its first group, or
\* CommunicationReadNoMatch when the match has no group), a reply that does not
\* match gives CommunicationReadNoMatch and no value.
GroupsOfMatchReturned ==
    LET t == lastTransaction
        match == Search(t.replyPattern, t.reply)
    IN  /\ (match.found /\ ReadsGroups) => (t.error = None /\ t.groups = match.groups)
        /\ (match.found /\ ReadsFirstGroup /\ match.groups # <<>>)
              => (t.error = None /\ t.value = match.groups[1])
        /\ (match.found /\ ReadsFirstGroup /\ match.groups = <<>>) => t.error = "NoMatch"
        /\ ~match.found => (t.error = "NoMatch" /\ t.groups = <<>> /\ t.value = <<>>)
        /\ PingCall(Pong) => t.error = "NoMatch"

\* C17 as stated: on the echo port a call whose reply matches replyPattern returns
\* the capture groups of the match in its own reply, for 'PING\n' with pattern
\* 'PING' a result reproducing 'PING'; with pattern 'PONG' it raises
\* CommunicationReadNoMatch.
C17_PingReturnsPing ==
    (ReplyRead /\ (ReadsGroups \/ ReadsFirstGroup))
    => /\ GroupsOfMatchReturned
       /\ lastTransaction.reply =
             Utf8Decode(FirstLine(EchoStringReply(Utf8Encode(lastTransaction.string))))
       /\ (PingCall([text |-> Ping, group |-> FALSE]) /\ ReadsGroups)
             => (lastTransaction.error = None /\ lastTransaction.groups = <<Ping>>)

\* C17 amended: the groups returned are those of replyPattern in the reply line
\* read, which is the first line of what the output buffer held before the call
\* followed by the echo of the request; for 'PING\n' on an empty buffer the pattern
\* 'PING', which has no group, gives the empty tuple (and NoMatch from the
\* first-group call), the pattern '(PING)' gives ('PING',) and 'PING' from the
\* first-group call, and 'PONG' raises CommunicationReadNoMatch.
C17_PingReturnsGroupsOfPattern ==
    (ReplyRead /\ (ReadsGroups \/ ReadsFirstGroup))
    => /\ GroupsOfMatchReturned
       /\ lastTransaction.reply =
             Utf8Decode(FirstLine(lastTransaction.before
                                  \o EchoStringReply(Utf8Encode(lastTransaction.string))))
       /\ (PingCall([text |-> Ping, group |-> FALSE]) /\ ReadsGroups)
             => (lastTransaction.error = None /\ lastTransaction.groups = <<>>)
       /\ (PingCall([text |-> Ping, group |-> FALSE]) /\ ReadsFirstGroup)
             => lastTransaction.error = "NoMatch"
       /\ (PingCall([text |-> Ping, group |-> TRUE]) /\ ReadsGroups)
             => (lastTransaction.error = None /\ lastTransaction.groups = <<Ping>>)
       /\ (PingCall([text |-> Ping, group |-> TRUE]) /\ ReadsFirstGroup)
             => (lastTransaction.error = None /\ lastTransaction.value = Ping)
       /\ PingCall([text |-> Ping, group |-> FALSE]) => lastTransaction.reply = PingLine

\* writeStringReadMatchingGroups('PING\n', 'PING') has returned from an empty
\* output buffer.
C17_Witness ==
    /\ ReadsGroups
    /\ PingCall([text |-> Ping, group |-> FALSE])
    /\ lastTransaction.error = None
    /\ lastTransaction.reply = PingLine

\* A call that did nothing
NoOp(call) ==
    /\ call.to = call.from
    /\ call.error = None
    /\ ~call.hookCalled
    /\ call.posted = <<>>

\* C18: initializeDevice() on a Ready device and shutdownDevice() on a device that
\* is not Ready leave the state as it is, call no device hook, stop no status
\* thread and have no notification dispatched.
C18_LifecycleNoOps ==
    /\ [] /\ (lastCall.op = "initialize" /\ lastCall.from = "Ready") => NoOp(lastCall)
          /\ (lastCall.op = "shutdown" /\ lastCall.from # "Ready") => NoOp(lastCall)
          /\ \A hookRaises \in BOOLEAN :
                InitializeDevice("Ready", observers, hookRaises)
                   = [state |-> "Ready", error |-> None, posted |-> <<>>,
                      hookCalled |-> FALSE]
    /\ [][ ( /\ lastCall' # lastCall
             /\ \/ lastCall'.op = "initialize" /\ lastCall'.from = "Ready"
                \/ lastCall'.op = "shutdown" /\ lastCall'.from # "Ready" )
           => UNCHANGED <<state, monitoring, quitMonitoring, tpc, posted>> ]_vars

\* shutdownDevice() has returned on an Unrecognized device whose status thread
\* handle is set, and the handle is still set.
C18_Witness ==
    /\ lastCall.op = "shutdown" /\ lastCall.from = "Unrecognized"
    /\ lastCall.hookRaises
    /\ monitoring # NoThread

\* C19: shutdownDevice() on a Ready device, the device that an initializeDevice()
\* with a succeeding hook leaves behind, has willShutdownDevice dispatched, stops
\* the status thread if one is set, calls doShutdownDevice and has
\* didShutdownDevice dispatched, in this order, so that no status thread runs once
\* the hook has been called.
C19_ShutdownOrder ==
    [][ ( /\ lastCall.op = "initialize" /\ ~lastCall.hookRaises
          /\ lastCall'.op = "shutdown" /\ ~lastCall'.hookRaises )
        => /\ lastCall'.posted = <<Notice("willShutdownDevice", None),
                                   Notice("didShutdownDevice", None)>>
           /\ lastCall'.hookCalled
           /\ monitoring' = NoThread
           /\ \A t \in ThreadIds : tpc'[t] \notin {"getStatus", "post"} ]_vars

\* The states that DeviceState declares
StateDeclared == state \in DeviceState

\* C20: the state is always one of Unconfigured, Ready, Recognized, Unrecognized;
\* it is Unconfigured until a call is made; it changes only to Ready by an
\* initializeDevice() that returns, to Unrecognized by an initializeDevice() that
\* raises, and to Recognized by a shutdownDevice() that began in Ready; it never
\* returns to Unconfigured.
C20_StateTransitions ==
    /\ [] /\ StateDeclared
          /\ lastCall = NoCall => state = "Unconfigured"
          /\ \A st \in DeviceState, hookRaises \in BOOLEAN :
                /\ InitializeDevice(st, observers, hookRaises).state
                      = IF st = "Ready" THEN "Ready"
                        ELSE IF InitializeDevice(st, observers, hookRaises).error = None
                        THEN "Ready" ELSE "Unrecognized"
                /\ ShutdownDevice(st, observers, hookRaises).state
                      = IF st = "Ready" THEN "Recognized" ELSE st
    /\ [][ state' # state =>
             /\ lastCall'.from = state
             /\ \/ /\ state' = "Ready"
                   /\ lastCall'.op = "initialize" /\ lastCall'.error = None
                \/ /\ state' = "Unrecognized"
                   /\ lastCall'.op = "initialize" /\ lastCall'.error # None
                \/ /\ state' = "Recognized"
                   /\ lastCall'.op = "shutdown" /\ state = "Ready" ]_vars

\* An initializeDevice() that raised has taken the device from Unconfigured to
\* Unrecognized.
C20_Witness ==
    /\ lastCall.op = "initialize" /\ lastCall.from = "Unconfigured"
    /\ lastCall.error # None
    /\ state = "Unrecognized"

\* C21: a readData(length) that raises ReadTimeout leaves the output buffer as it
\* was before the call, so the bytes that were available are still there for a
\* later read.
C21_FailedReadKeepsBuffer ==
    (lastIO.op = "readData" /\ lastIO.error = "ReadTimeout")
        => outputBuffer = lastIO.before

\* readData asked for more bytes than a non-empty buffer held and raised
\* ReadTimeout; the buffer is empty afterwards.
C21_Witness ==
    /\ lastIO.op = "readData" /\ lastIO.error = "ReadTimeout"
    /\ lastIO.before # <<>>
    /\ outputBuffer = <<>>

\* What readString hands a call whose write found the output buffer empty: the
\* reply line produced by the call's own write alone.
OwnReply(call) ==
    ReadString(WriteData(portClass, commands, <<>>, Utf8Encode(call.string)).outputBuffer)

\* C22: in any sequence of sequential calls, successful or failed, the reply line a
\* call evaluates is the one produced by its own write; it holds no byte that an
\* earlier call left in the output buffer.
C22_NoStaleReply ==
    lastTransaction.method # None
        => /\ lastTransaction.reply = OwnReply(lastTransaction).string
           /\ (lastTransaction.error \in {"ReadTimeout", "UnicodeDecodeError"})
                 = (OwnReply(lastTransaction).error # None)

\* A call found in the output buffer a byte left by an earlier call, whose echoed
\* reply held a line feed before its last byte, and evaluated a reply line that
\* begins with that byte.
C22_Witness ==
    /\ lastTransaction.method # None
    /\ lastTransaction.before # <<>>
    /\ lastTransaction.error = None
    /\ lastTransaction.reply = Utf8Decode(lastTransaction.before)
                                  \o OwnReply(lastTransaction).string

\* How many notifications of a name a sequence of dispatched notifications holds
Dispatched(notices, name) ==
    Cardinality({i \in 1..Len(notices) : notices[i].name = name})

\* C23: every initializeDevice() call on a device that is not Ready has
\* didInitializeDevice dispatched exactly once, and leaves the state Unrecognized
\* only when doInitializeDevice itself was called and raised.
C23_DidInitializeOnce ==
    (lastCall.op = "initialize" /\ lastCall.from # "Ready")
    => /\ Dispatched(lastCall.posted, "didInitializeDevice") = 1
       /\ lastCall.to = "Unrecognized" => (lastCall.hookCalled /\ lastCall.hookRaises)

\* initializeDevice() with a hook that would succeed has returned: nothing was
\* dispatched, the hook was not called and the device is Unrecognized.
C23_Witness ==
    /\ lastCall.op = "initialize" /\ lastCall.from # "Ready"
    /\ ~lastCall.hookRaises /\ ~lastCall.hookCalled
    /\ Dispatched(lastCall.posted, "didInitializeDevice") = 0
    /\ state = "Unrecognized"

\* Some registration of the table is one that removeObserver called with info
\* would drop
HasRegistration(table, info) ==
    \E k \in DOMAIN table :
        /\ info.notificationName \in {None, k}
        /\ Contains(table[k], info)

\* C24: removeObserver(observer, name) for an observer or a name that has no
\* registration in the table (never added, already removed, or dropped by clear())
\* raises nothing and leaves the table as it was.
C24_RemoveMissingChangesNothing ==
    [][ ( /\ lastOp'.op = "remove"
          /\ lastOp'.name \in NotificationNames \cup {None}
          /\ ~HasRegistration(observers, ObserverInfo(lastOp'.observer, lastOp'.name,
                                                      lastOp'.object)) )
        => /\ lastOp'.error = None
           /\ observers' = observers ]_vars

\* removeObserver has raised KeyError for a proper name under which the table, which
\* holds a registration under another name, has no list.
C24_Witness ==
    /\ lastOp.op = "remove" /\ lastOp.error = "KeyError"
    /\ lastOp.name \in NotificationNames
    /\ lastOp.name \notin DOMAIN observers
    /\ ObserversCount(observers) > 0

\* C25: when two threads call stopBackgroundStatusUpdates() concurrently, in every
\* interleaving each call either returns normally, having joined a status thread
\* that has ended, or raises RuntimeError("No status loop running"); no call raises
\* anything else, and a call that returns normally leaves the device reporting no
\* status loop.
C25_ConcurrentStopsReturnOrRaise ==
    /\ [] ( lastCall.op = "stop"
              => /\ lastCall.error \in {None, "NotPolling"}
                 /\ lastCall.error = None
                       => /\ lastCall.joined.thread \in ThreadIds
                          /\ tpc[lastCall.joined.thread] = "dead" )
    /\ [][ \A c \in Callers :
              ( /\ cpc[c] = "stop_reset" /\ cpc'[c] = "idle"
                /\ lastCall'.error = None )
              => ~IsMonitoring' ]_vars

\* Two threads passed the isMonitoring test of one status thread; one has joined it
\* and reset the handle, and the join() of the other has raised AttributeError on
\* the handle that is None.
C25_Witness ==
    /\ lastCall.op = "stop" /\ lastCall.error = "AttributeError"
    /\ lastCall.wasMonitoring
    /\ monitoring = NoThread
    /\ \A c \in Callers : cpc[c] = "idle"
    /\ \E t \in ThreadIds : tpc[t] = "dead"

=============================================================================
